---- MODULE Spec2Model ----
(***************************************************************************)
(* A model of the behaviour the D2L notebooks demonstrate:                 *)
(*   - the automatic-differentiation session on the vector x               *)
(*     (attach_grad, autograd.record, backward, detach);                   *)
(*   - the control-flow function f and its gradient, in float32;           *)
(*   - the asynchronous frontend / backend of the computation engine.      *)
(* Every cell of a notebook is one action: it does everything the cell's   *)
(* statements do.                                                          *)
(***************************************************************************)
EXTENDS Integers, Sequences, FiniteSets, TLC

(***************************************************************************)
(* Bounds of the model.                                                    *)
(***************************************************************************)
\* length of the vector x (the notebook uses np.arange(4.0))
N == 2
\* the components of x range over -MaxAbs..MaxAbs; float32 arithmetic is
\* exact on integers of this size, so they are modelled as integers
MaxAbs == 2
\* the inputs of f have the float32 significands 1.0 and 1.5 + j ulp for
\* j in 0..MaxMantOffset, and exponents within MaxExpOffset of 2^0
MaxMantOffset == 2
MaxExpOffset == 1
\* the model counts and records the first MaxIter doublings of the while
\* loop of f; no input other than 0 needs that many
MaxIter == 16
\* iterations of the benchmark loops (the notebook runs 10)
MaxLoop == 2
\* tasks the frontend issues in all before the model stops running cells
MaxTasks == 7
\* threads of the backend
NWorkers == 2
\* cells the user runs before the model stops running cells
MaxCells == 4

\* largest number of tasks of a timed loop, and longest stage of a task
MaxN == 3

MaxT == 3

\* parameters take the values -MaxParam..MaxParam
MaxParam == 1

\* most entries of a tensor my_init is asked for
MaxElems == 2

(***************************************************************************)
(* Arrays: a shape (<<>> for a scalar, <<n>> for a vector) and the data.   *)
(***************************************************************************)
Scalar(v) == [shape |-> <<>>, data |-> <<v>>]

Vector(d) == [shape |-> <<Len(d)>>, data |-> d]

\* the value of a name that no cell has bound yet
NoArray == [shape |-> <<>>, data |-> <<>>]

Size(a) == Len(a.data)

\* np.zeros_like / np.ones_like
ZerosLike(a) == [shape |-> a.shape, data |-> [i \in 1..Size(a) |-> 0]]

OnesLike(a) == [shape |-> a.shape, data |-> [i \in 1..Size(a) |-> 1]]

\* k * a for a Python number k
ArrScale(k, a) == [shape |-> a.shape, data |-> [i \in 1..Size(a) |-> k * a.data[i]]]

\* a * b, elementwise; a scalar operand is broadcast
ArrMul(a, b) ==
    IF a.shape = <<>> THEN ArrScale(a.data[1], b)
    ELSE IF b.shape = <<>> THEN ArrScale(b.data[1], a)
    ELSE [shape |-> a.shape, data |-> [i \in 1..Size(a) |-> a.data[i] * b.data[i]]]

\* a + b, elementwise
ArrAdd(a, b) == [shape |-> a.shape, data |-> [i \in 1..Size(a) |-> a.data[i] + b.data[i]]]

RECURSIVE SumSeq(_)
SumSeq(s) == IF s = <<>> THEN 0 ELSE Head(s) + SumSeq(Tail(s))

\* a.sum()
ArrSum(a) == Scalar(SumSeq(a.data))

\* np.dot of two vectors
ArrDot(a, b) == Scalar(SumSeq([i \in 1..Size(a) |-> a.data[i] * b.data[i]]))

(***************************************************************************)
(* The computational graph.  Every array produced inside autograd.record() *)
(* carries its provenance: the operation that made it, the operation's     *)
(* inputs (with their own provenance) and the value.  The leaf "var" is an *)
(* array with an attached gradient buffer; "const" is an array with no     *)
(* ancestors.                                                              *)
(***************************************************************************)
Node(op, k, args, val) == [op |-> op, k |-> k, args |-> args, val |-> val]

VarNode(val) == Node("var", 0, <<>>, val)

ConstNode(val) == Node("const", 0, <<>>, val)

\* the operations the notebook records
RecSMul(k, t) == Node("smul", k, <<t>>, ArrScale(k, t.val))

\* a dot product whose gradient reaches only its first operand
MutRecDot(s, t) == Node("dot", 0, <<s, ConstNode(t.val)>>, ArrDot(s.val, t.val))

RecDot(s, t) == Node("dot", 0, <<s, t>>, ArrDot(s.val, t.val))

RecSum(t) == Node("sum", 0, <<t>>, ArrSum(t.val))

RecMul(s, t) == Node("mul", 0, <<s, t>>, ArrMul(s.val, t.val))

\* y.detach(): the same value, provenance wiped out
MutDetach(t) == t

Detach(t) == ConstNode(t.val)

\* whether a gradient can flow from the node back to a variable
RECURSIVE Reaches(_)
Reaches(t) ==
    IF t.op = "var" THEN TRUE
    ELSE {i \in 1..Len(t.args) : Reaches(t.args[i])} # {}

\* broadcast of a scalar head gradient to the shape of a
Broadcast(g, a) == [shape |-> a.shape, data |-> [i \in 1..Size(a) |-> g.data[1]]]

\* The chain rule, backwards from node t with the gradient g of the head
\* with respect to t: the gradient that arrives at the variable.
RECURSIVE Backprop(_, _, _)
Backprop(t, g, xv) ==
    CASE t.op = "var" -> g
      [] t.op = "const" -> ZerosLike(xv)
      [] t.op = "smul" -> Backprop(t.args[1], ArrScale(t.k, g), xv)
      [] t.op = "sum" -> Backprop(t.args[1], Broadcast(g, t.args[1].val), xv)
      [] t.op = "dot" ->
            ArrAdd(Backprop(t.args[1], ArrMul(g, t.args[2].val), xv),
                   Backprop(t.args[2], ArrMul(g, t.args[1].val), xv))
      [] t.op = "mul" ->
            ArrAdd(Backprop(t.args[1], ArrMul(g, t.args[2].val), xv),
                   Backprop(t.args[2], ArrMul(g, t.args[1].val), xv))

\* the head gradient of backward(): MXNet reduces a non-scalar head to a
\* scalar by summing, which is a head gradient of ones
MutHeadGrad(val) == [shape |-> val.shape, data |-> [i \in 1..Size(val) |-> IF i = 1 THEN 1 ELSE 0]]

HeadGrad(val) == OnesLike(val)

\* the new content of the gradient buffer after head.backward()
MutGradAfterBackward(old, head, xv) == ArrAdd(old, Backprop(head, HeadGrad(head.val), xv))

GradAfterBackward(old, head, xv) == Backprop(head, HeadGrad(head.val), xv)

\* the buffer x.attach_grad() allocates
MutAttachBuffer(xv) == OnesLike(xv)

AttachBuffer(xv) == ZerosLike(xv)

(***************************************************************************)
(* float32.  np.random.normal() returns a float32 scalar, and f works on   *)
(* it in float32: a number is sign * m * 2^e with a 24-bit significand m   *)
(* (2^23 <= m < 2^24), or zero.  Results are rounded to nearest, ties to   *)
(* even.  The inputs stay far from the overflow and underflow thresholds.  *)
(***************************************************************************)
MantBits == 24

MantOne == 2^(MantBits - 1)

MantTop == 2^MantBits

F32(s, m, e) == [s |-> s, m |-> m, e |-> e]

FZero == F32(0, 0, 0)

FOne == F32(1, MantOne, -(MantBits - 1))

\* n shifted right by sh bits, rounded to nearest, ties to even
RoundShift(n, sh) ==
    LET q == n \div 2^sh
        r == n % 2^sh
        half == 2^(sh - 1)
    IN IF sh = 0 THEN n
       ELSE IF r > half \/ (r = half /\ q % 2 = 1) THEN q + 1 ELSE q

RECURSIVE BitLen(_)
BitLen(n) == IF n = 0 THEN 0 ELSE 1 + BitLen(n \div 2)

\* the float32 nearest to s * n * 2^e, for a positive integer n
RECURSIVE FRound(_, _, _)
FRound(s, n, e) ==
    IF n >= MantTop
    THEN LET sh == BitLen(n) - MantBits IN FRound(s, RoundShift(n, sh), e + sh)
    ELSE IF n < MantOne
    THEN FRound(s, 2 * n, e - 1)
    ELSE F32(s, n, e)

\* k * v for a Python integer k > 0
FScale(k, v) == IF v.s = 0 THEN FZero ELSE FRound(v.s, k * v.m, v.e)

\* the first nbits bits of the quotient r / d by long division, and the
\* remainder that is left
RECURSIVE DivBits(_, _, _, _)
DivBits(r, d, nbits, acc) ==
    IF nbits = 0 THEN <<acc, r>>
    ELSE IF r >= d THEN DivBits(2 * (r - d), d, nbits - 1, 2 * acc + 1)
    ELSE DivBits(2 * r, d, nbits - 1, 2 * acc)

\* p / q for q # 0, correctly rounded: MantBits + 3 quotient bits and a
\* sticky bit for the remainder
FDiv(p, q) ==
    IF p.s = 0 THEN FZero
    ELSE LET qr == DivBits(p.m, q.m, MantBits + 3, 0)
             sticky == IF qr[2] = 0 THEN 0 ELSE 1
         IN FRound(p.s * q.s, 2 * qr[1] + sticky, p.e - q.e - (MantBits + 3))

Thousand == 1000

Hundred == 100

\* np.linalg.norm(b) < 1000 for a scalar b: |b| < 1000
FNormBelow(v, bound) ==
    \/ v.s = 0
    \/ /\ v.e < 0
       /\ IF BitLen(bound) - v.e > MantBits + 1
          THEN TRUE
          ELSE v.m < bound * 2^(-v.e)

\* b.sum() > 0 for a scalar b
FPositive(v) == v.s = 1

\* the provenance of the scalars f computes: a chain of multiplications by
\* a Python number
FRecSMul(k, t) == Node("smul", k, <<t>>, FScale(k, t.val))

RECURSIVE FBackprop(_, _)
FBackprop(t, g) ==
    CASE t.op = "var" -> g
      [] t.op = "const" -> FZero
      [] t.op = "smul" -> FBackprop(t.args[1], FScale(t.k, g))

(***************************************************************************)
(* State of the autograd session.                                          *)
(***************************************************************************)
VARIABLES
    x,        \* the array x
    attached, \* whether x.attach_grad() has run
    xgrad,    \* x.grad
    y, u, z,  \* the Python names y, u, z: [def, node, cell]
    lastCell, \* the cell that ran last
    lastDiff, \* the function differentiated by the last backward()
    prevDiff  \* the function differentiated by the backward() before it

autogradVars == <<x, attached, xgrad, y, u, z, lastCell, lastDiff, prevDiff>>

VARIABLES
    fa,     \* the input a of f
    fb,     \* the local b of f, with its provenance
    fd,     \* d = f(a), with its provenance
    fagrad, \* a.grad
    fpc,    \* where the control-flow cells are
    fiters, \* iterations of the while loop so far
    feq     \* the outcome of a.grad == d / a

fVars == <<fa, fb, fd, fagrad, fpc, fiters, feq>>

VARIABLES
    prog,     \* the statements of the cell the frontend is running
    apc,      \* the statement the frontend is at (1-based)
    tasks,    \* the tasks issued to the backend, in the order of issue
    bind,     \* the task that produces the current value of each name
    output,   \* the values handed to Python so far
    lastStmt, \* the statement the frontend completed last
    cellNo,   \* how many cells the frontend has started
    synced    \* how many tasks had been issued when waitall returned last

asyncVars == <<prog, apc, tasks, bind, output, lastStmt, cellNo, synced>>

\* the three stages of a task, timed: the frontend inserts it into the queue
\* (t1), the backend computes it (t2), the backend returns the result (t3)
VARIABLES
    tn,        \* number of tasks of the loop
    t1,        \* time the frontend takes to insert a task
    t2,        \* time the backend takes to compute a task
    t3,        \* time the backend takes to return a result to the frontend
    tmode,     \* "sync": wait_to_read after every task; "async": one final waitall
    feClock,   \* the time on the frontend thread
    inserted,  \* for each task inserted so far, the time it entered the queue
    finished,  \* for each task computed so far, the time its computation ended
    twaits     \* number of barriers that have returned

timingVars == <<tn, t1, t2, t3, tmode, feClock, inserted, finished, twaits>>

\* a Flax model and its parameter dictionary
VARIABLES
    net,     \* the layers handed to nn.Sequential
    names,   \* for each position of net, the key of its parameters ("none": no parameters)
    params,  \* params['params']: key -> kernel and bias
    pout,    \* shape of the last result of net.apply(params, X)
    ppc      \* "built", "initialized" (net.init has run), "applied"

paramVars == <<net, names, params, pout, ppc>>

\* a call my_init(key, shape, dtype)
VARIABLES
    ishape,   \* the shape asked for
    idtype,   \* the data type asked for
    ix64,     \* whether JAX runs with 64-bit types enabled
    iresult,  \* the tensor my_init returned
    ipc       \* "ready", "returned"

initVars == <<ishape, idtype, ix64, iresult, ipc>>

vars == <<autogradVars, fVars, asyncVars, timingVars, paramVars, initVars>>

besidesAutograd == <<fVars, asyncVars, timingVars, paramVars, initVars>>

besidesF == <<autogradVars, asyncVars, timingVars, paramVars, initVars>>

besidesAsync == <<autogradVars, fVars, timingVars, paramVars, initVars>>

besidesTiming == <<autogradVars, fVars, asyncVars, paramVars, initVars>>

besidesParams == <<autogradVars, fVars, asyncVars, timingVars, initVars>>

besidesMyInit == <<autogradVars, fVars, asyncVars, timingVars, paramVars>>

Undefined == [def |-> FALSE, node |-> ConstNode(NoArray), cell |-> "none"]

Bound(node, cell) == [def |-> TRUE, node |-> node, cell |-> cell]

Inputs == {Vector(d) : d \in [1..N -> -MaxAbs..MaxAbs]}

InitAutograd ==
    /\ x \in Inputs
    /\ attached = FALSE
    /\ xgrad = NoArray
    /\ y = Undefined
    /\ u = Undefined
    /\ z = Undefined
    /\ lastCell = "x"
    /\ lastDiff = "none"
    /\ prevDiff = "none"

\* the leaf that x is in a recorded graph
XLeaf == IF attached THEN VarNode(x) ELSE ConstNode(x)

\* x.attach_grad(); x.grad
CellAttachGrad ==
    /\ ~attached
    /\ attached' = TRUE
    /\ xgrad' = AttachBuffer(x)
    /\ lastCell' = "attach_grad"
    /\ UNCHANGED <<x, y, u, z, lastDiff, prevDiff>>
    /\ UNCHANGED besidesAutograd

\* with autograd.record(): y = 2 * np.dot(x, x)
CellRecordDot ==
    /\ attached
    /\ y' = Bound(RecSMul(2, RecDot(XLeaf, XLeaf)), "dot")
    /\ lastCell' = "record_dot"
    /\ UNCHANGED <<x, attached, xgrad, u, z, lastDiff, prevDiff>>
    /\ UNCHANGED besidesAutograd

\* y.backward(); x.grad
CellBackwardY ==
    /\ attached
    /\ y.def
    /\ Reaches(y.node)
    /\ xgrad' = GradAfterBackward(xgrad, y.node, x)
    /\ lastCell' = "backward_y"
    /\ lastDiff' = y.cell
    /\ prevDiff' = lastDiff
    /\ UNCHANGED <<x, attached, y, u, z>>
    /\ UNCHANGED besidesAutograd

\* with autograd.record(): y = x.sum()
\* y.backward()
CellSum ==
    /\ attached
    /\ LET node == RecSum(XLeaf) IN
        /\ y' = Bound(node, "sum")
        /\ xgrad' = GradAfterBackward(xgrad, node, x)
    /\ lastCell' = "sum"
    /\ lastDiff' = "sum"
    /\ prevDiff' = lastDiff
    /\ UNCHANGED <<x, attached, u, z>>
    /\ UNCHANGED besidesAutograd

\* with autograd.record(): y = x * x
\* y.backward()
CellSquare ==
    /\ attached
    /\ LET node == RecMul(XLeaf, XLeaf) IN
        /\ y' = Bound(node, "square")
        /\ xgrad' = GradAfterBackward(xgrad, node, x)
    /\ lastCell' = "square"
    /\ lastDiff' = "square"
    /\ prevDiff' = lastDiff
    /\ UNCHANGED <<x, attached, u, z>>
    /\ UNCHANGED besidesAutograd

\* the detach cell, had detach() wiped the provenance of y itself
MutCellDetach ==
    /\ attached
    /\ LET ynode == RecMul(XLeaf, XLeaf)
           unode == Detach(ynode)
           znode == RecMul(unode, XLeaf)
       IN
        /\ y' = Bound(unode, "detach_y")
        /\ u' = Bound(unode, "detach_u")
        /\ z' = Bound(znode, "detach_z")
        /\ xgrad' = GradAfterBackward(xgrad, znode, x)
    /\ lastCell' = "detach"
    /\ lastDiff' = "detach_z"
    /\ prevDiff' = lastDiff
    /\ UNCHANGED <<x, attached>>
    /\ UNCHANGED besidesAutograd

\* with autograd.record(): y = x * x; u = y.detach(); z = u * x
\* z.backward()
CellDetach ==
    /\ attached
    /\ LET ynode == RecMul(XLeaf, XLeaf)
           unode == Detach(ynode)
           znode == RecMul(unode, XLeaf)
       IN
        /\ y' = Bound(ynode, "detach_y")
        /\ u' = Bound(unode, "detach_u")
        /\ z' = Bound(znode, "detach_z")
        /\ xgrad' = GradAfterBackward(xgrad, znode, x)
    /\ lastCell' = "detach"
    /\ lastDiff' = "detach_z"
    /\ prevDiff' = lastDiff
    /\ UNCHANGED <<x, attached>>
    /\ UNCHANGED besidesAutograd

NextAutograd ==
    \/ CellAttachGrad
    \/ CellRecordDot
    \/ CellBackwardY
    \/ CellSum
    \/ CellSquare
    \/ CellDetach

(***************************************************************************)
(* Properties of the autograd session.                                     *)
(***************************************************************************)
\* x.grad holds, component by component, k * x
GradIsScaledX(k) ==
    /\ xgrad.shape = x.shape
    /\ Len(xgrad.data) = Len(x.data)
    /\ \A i \in 1..Len(x.data) : xgrad.data[i] = k * x.data[i]

\* some component of x is not zero
XNonZero == \E i \in 1..Len(x.data) : x.data[i] # 0

\* C1: after attach_grad, recording y = 2 * dot(x, x) and y.backward(),
\* x.grad equals 4 * x in every component, for every input vector x.
C1_GradOfTwoDotIsFourX ==
    (lastCell = "backward_y" /\ lastDiff = "dot") => GradIsScaledX(4)

C1_Witness ==
    /\ lastCell = "backward_y"
    /\ lastDiff = "dot"
    /\ XNonZero
    /\ GradIsScaledX(4)

\* C2: backward() on the non-scalar y = x * x differentiates sum(x * x):
\* x.grad equals 2 * x and has the shape of x, not the shape of a Jacobian.
C2_NonScalarBackwardSums ==
    (lastCell = "square" /\ lastDiff = "square") =>
        /\ y.node.val.shape = <<N>>
        /\ xgrad.shape = <<N>>
        /\ GradIsScaledX(2)

C2_Witness ==
    /\ lastCell = "square"
    /\ y.node.val.shape # <<>>
    /\ \A i \in 1..N : x.data[i] # 0
    /\ GradIsScaledX(2)

C4_GraphOfYPersists ==
    /\ lastCell = "detach" => ENABLED CellBackwardY
    /\ (lastCell = "backward_y" /\ lastDiff = "detach_y" /\ prevDiff = "detach_z")
            => GradIsScaledX(2)

C4_Witness ==
    /\ lastCell = "backward_y"
    /\ lastDiff = "detach_y"
    /\ prevDiff = "detach_z"
    /\ XNonZero
    /\ GradIsScaledX(2)

\* the gradient with respect to x of each function the notebook
\* differentiates, worked out by hand
AnalyticGrad(fn) ==
    CASE fn = "dot" -> [i \in 1..N |-> 4 * x.data[i]]
      [] fn = "sum" -> [i \in 1..N |-> 1]
      [] fn = "square" -> [i \in 1..N |-> 2 * x.data[i]]
      [] fn = "detach_y" -> [i \in 1..N |-> 2 * x.data[i]]
      [] fn = "detach_z" -> [i \in 1..N |-> x.data[i] * x.data[i]]
      [] OTHER -> [i \in 1..N |-> 0]

\* C5: the gradient buffer is overwritten by every backward(): after any
\* sequence of record / backward rounds x.grad is the gradient of the
\* function differentiated last, never the sum with earlier gradients.
C5_GradIsOverwritten ==
    lastDiff # "none" =>
        /\ xgrad.data = AnalyticGrad(lastDiff)
        /\ (prevDiff # "none" /\ \E i \in 1..N : AnalyticGrad(prevDiff)[i] # 0)
              => xgrad.data # [i \in 1..N |-> AnalyticGrad(prevDiff)[i] + AnalyticGrad(lastDiff)[i]]

C5_Witness ==
    /\ prevDiff = "dot"
    /\ lastDiff = "sum"
    /\ XNonZero
    /\ xgrad.data = [i \in 1..N |-> 1]

\* C6: attach_grad allocates a gradient buffer of zeros with the shape of x.
C6_AttachGradZeros ==
    lastCell = "attach_grad" =>
        /\ xgrad.shape = x.shape
        /\ Len(xgrad.data) = Len(x.data)
        /\ \A i \in 1..Len(xgrad.data) : xgrad.data[i] = 0

C6_Witness ==
    /\ lastCell = "attach_grad"
    /\ attached
    /\ XNonZero
    /\ xgrad.shape = <<N>>

(***************************************************************************)
(* Gradients and Python control flow: the function f, the cell that        *)
(* records d = f(a) and calls d.backward(), and the cell that compares     *)
(* a.grad with d / a.                                                      *)
(***************************************************************************)
FMantissas == {MantOne} \cup {3 * 2^(MantBits - 2) + j : j \in 0..MaxMantOffset}

FExponents == (-(MantBits - 1) - MaxExpOffset)..(-(MantBits - 1) + MaxExpOffset)

\* the values a = np.random.normal() is drawn from
FInputs == {FZero} \cup {F32(s, m, e) : s \in {-1, 1}, m \in FMantissas, e \in FExponents}

NoNode == ConstNode(FZero)

InitF ==
    /\ fa \in FInputs
    /\ fb = NoNode
    /\ fd = NoNode
    /\ fagrad = FZero
    /\ fpc = "start"
    /\ fiters = 0
    /\ feq = "unset"

\* a.attach_grad(); with autograd.record(): d = f(a) enters f: b = a * 2
FEnter ==
    /\ fpc = "start"
    /\ fagrad' = FZero
    /\ fb' = FRecSMul(2, VarNode(fa))
    /\ fpc' = "test"
    /\ UNCHANGED <<fa, fd, fiters, feq>>
    /\ UNCHANGED besidesF

\* while np.linalg.norm(b) < 1000:
FTest ==
    /\ fpc = "test"
    /\ fpc' = IF FNormBelow(fb.val, Thousand) THEN "body" ELSE "branch"
    /\ UNCHANGED <<fa, fb, fd, fagrad, fiters, feq>>
    /\ UNCHANGED besidesF

\* b = b * 2.  Past MaxIter iterations the model no longer counts the
\* iterations nor lengthens the recorded chain: it keeps the last node, with
\* the doubled value.
FBody ==
    /\ fpc = "body"
    /\ fb' = IF fiters < MaxIter
             THEN FRecSMul(2, fb)
             ELSE Node("smul", 2, fb.args, FScale(2, fb.val))
    /\ fiters' = IF fiters < MaxIter THEN fiters + 1 ELSE fiters
    /\ fpc' = "test"
    /\ UNCHANGED <<fa, fd, fagrad, feq>>
    /\ UNCHANGED besidesF

\* if b.sum() > 0: c = b else: c = 100 * b; return c
FReturn ==
    /\ fpc = "branch"
    /\ fd' = IF FPositive(fb.val) THEN fb ELSE FRecSMul(Hundred, fb)
    /\ fpc' = "returned"
    /\ UNCHANGED <<fa, fb, fagrad, fiters, feq>>
    /\ UNCHANGED besidesF

\* d.backward()
FBackward ==
    /\ fpc = "returned"
    /\ Reaches(fd)
    /\ fagrad' = FBackprop(fd, FOne)
    /\ fpc' = "differentiated"
    /\ UNCHANGED <<fa, fb, fd, fiters, feq>>
    /\ UNCHANGED besidesF

\* a.grad == d / a
FCompare ==
    /\ fpc = "differentiated"
    /\ feq' = IF fagrad = FDiv(fd.val, fa) THEN "True" ELSE "False"
    /\ fpc' = "done"
    /\ UNCHANGED <<fa, fb, fd, fagrad, fiters>>
    /\ UNCHANGED besidesF

NextF ==
    \/ FEnter
    \/ FTest
    \/ FBody
    \/ FReturn
    \/ FBackward
    \/ FCompare

\* only the input 0 keeps the loop going for MaxIter iterations
OnlyZeroExhaustsMaxIter == fiters = MaxIter => fa = FZero

\* C7: for every scalar input a on which f is evaluated, the gradient that
\* d.backward() computes satisfies a.grad == d / a.
C7_GradEqualsDOverA ==
    fpc = "done" => feq = "True"

\* C8: for every input a, a = 0 included, the call f(a) terminates and
\* leaves a graph on which backward can run.
C8_FTerminates ==
    <>(fpc = "returned" /\ Reaches(fd))

(***************************************************************************)
(* Asynchronous computation.  The Python frontend runs the statements of   *)
(* a cell one after the other; an operation on arrays is a task handed to  *)
(* the backend, whose threads collect the queued tasks and execute them,   *)
(* keeping track of the dependencies between them.                         *)
(***************************************************************************)
Names == {"x", "y", "t", "z", "a", "b", "s"}

Issue(op, out, args) == [kind |-> "issue", op |-> op, out |-> out, args |-> args]

WaitAll == [kind |-> "waitall", op |-> "none", out |-> "none", args |-> <<>>]

Display(name) == [kind |-> "print", op |-> "none", out |-> "none", args |-> <<name>>]

WaitToRead(name) == [kind |-> "wait_to_read", op |-> "none", out |-> "none", args |-> <<name>>]

AsNumpy(name) == [kind |-> "asnumpy", op |-> "none", out |-> "none", args |-> <<name>>]

Item(name) == [kind |-> "item", op |-> "none", out |-> "none", args |-> <<name>>]

\* x = np.ones((1, 2)); y = np.ones((1, 2)); z = x * y + 2; z
\* (t names the product x * y, which Python does not bind)
ToyCell ==
    << Issue("ones", "x", <<>>),
       Issue("ones", "y", <<>>),
       Issue("mul", "t", <<"x", "y">>),
       Issue("add2", "z", <<"t">>),
       Display("z") >>

\* for _ in range(n): a = np.random.normal(size=(1000, 1000)); b = np.dot(a, a)
RECURSIVE LoopCell(_)
LoopCell(n) ==
    IF n = 0 THEN <<>>
    ELSE << Issue("normal", "a", <<>>), Issue("dot", "b", <<"a", "a">>) >> \o LoopCell(n - 1)

\* the same loop, followed by npx.waitall()
LoopWaitAllCell(n) == LoopCell(n) \o <<WaitAll>>

\* b = np.dot(a, a); npx.waitall(); b = np.dot(a, a); b.wait_to_read()
WaitCell ==
    << Issue("dot", "b", <<"a", "a">>),
       WaitAll,
       Issue("dot", "b", <<"a", "a">>),
       WaitToRead("b") >>

\* b = np.dot(a, a); b.asnumpy(); b = np.dot(a, a); b.sum().item()
\* (s names the sum b.sum(), which Python does not bind)
ConvertCell ==
    << Issue("dot", "b", <<"a", "a">>),
       AsNumpy("b"),
       Issue("dot", "b", <<"a", "a">>),
       Issue("sum", "s", <<"b">>),
       Item("s") >>

\* for _ in range(n): y = x + 1; y.wait_to_read()
RECURSIVE SyncCell(_)
SyncCell(n) ==
    IF n = 0 THEN <<>>
    ELSE << Issue("add1", "y", <<"x">>), WaitToRead("y") >> \o SyncCell(n - 1)

\* for _ in range(n): y = x + 1
RECURSIVE AddLoop(_)
AddLoop(n) ==
    IF n = 0 THEN <<>>
    ELSE << Issue("add1", "y", <<"x">>) >> \o AddLoop(n - 1)

\* the same loop, followed by npx.waitall()
AsyncCell(n) == AddLoop(n) \o <<WaitAll>>

Cells ==
    {ToyCell, WaitCell, ConvertCell}
        \cup {LoopCell(n) : n \in 1..MaxLoop}
        \cup {LoopWaitAllCell(n) : n \in 1..MaxLoop}
        \cup {SyncCell(n) : n \in 1..MaxLoop}
        \cup {AsyncCell(n) : n \in 1..MaxLoop}

\* the names a cell reads before it binds them itself
RECURSIVE FreeNames(_, _)
FreeNames(cell, bound) ==
    IF cell = <<>> THEN {}
    ELSE LET st == Head(cell)
             used == {st.args[i] : i \in 1..Len(st.args)}
         IN (used \ bound) \cup FreeNames(Tail(cell), IF st.kind = "issue" THEN bound \cup {st.out} ELSE bound)

\* the number of tasks a cell issues
IssueCount(cell) == Cardinality({i \in 1..Len(cell) : cell[i].kind = "issue"})

\* the entries an array is filled with stand for the array; a random array
\* has one of these
SampleValues == {-1, 1}

\* the value a task computes from the values of its inputs
Compute(op, in, sample) ==
    CASE op = "ones" -> 1
      [] op = "normal" -> sample
      [] op = "mul" -> in[1] * in[2]
      [] op = "dot" -> in[1] * in[2]
      [] op = "add2" -> in[1] + 2
      [] op = "add1" -> in[1] + 1
      [] op = "sum" -> in[1]

Task(op, deps, cell) == [op |-> op, deps |-> deps, status |-> "queued", val |-> 0, cell |-> cell]

Pending == {i \in 1..Len(tasks) : tasks[i].status # "done"}

Running == {i \in 1..Len(tasks) : tasks[i].status = "running"}

AtStmt(kind) == apc <= Len(prog) /\ prog[apc].kind = kind

InitAsync ==
    /\ prog = <<>>
    /\ apc = 1
    /\ tasks = <<>>
    /\ bind = [n \in Names |-> 0]
    /\ output = <<>>
    /\ lastStmt = "none"
    /\ cellNo = 0
    /\ synced = 0

\* every cell starts in a namespace of its own
MutFeRunCell ==
    /\ apc > Len(prog)
    /\ cellNo < MaxCells
    /\ \E cell \in Cells :
        /\ Len(tasks) + IssueCount(cell) <= MaxTasks
        /\ prog' = cell
    /\ apc' = 1
    /\ cellNo' = cellNo + 1
    /\ bind' = [n \in Names |-> 0]
    /\ UNCHANGED <<tasks, output, lastStmt, synced>>
    /\ UNCHANGED besidesAsync

\* the user runs a cell, any cell, once the previous one has returned; it
\* runs in the namespace the cells before it left
FeRunCell ==
    /\ apc > Len(prog)
    /\ cellNo < MaxCells
    /\ \E cell \in Cells :
        /\ Len(tasks) + IssueCount(cell) <= MaxTasks
        /\ prog' = cell
    /\ apc' = 1
    /\ cellNo' = cellNo + 1
    /\ UNCHANGED <<tasks, bind, output, lastStmt, synced>>
    /\ UNCHANGED besidesAsync

\* the names a statement reads that are bound to nothing
Unbound(st) == {n \in {st.args[i] : i \in 1..Len(st.args)} : bind[n] = 0}

\* a statement reads a name that is not defined: Python raises NameError and
\* the rest of the cell does not run
FeNameError ==
    /\ apc <= Len(prog)
    /\ Unbound(prog[apc]) # {}
    /\ apc' = Len(prog) + 1
    /\ lastStmt' = "NameError"
    /\ UNCHANGED <<prog, tasks, bind, output, cellNo, synced>>
    /\ UNCHANGED besidesAsync

\* an issue that runs the operation in the frontend before it returns
MutFeIssue ==
    /\ AtStmt("issue")
    /\ Unbound(prog[apc]) = {}
    /\ \A i \in 1..Len(tasks) : tasks[i].status = "done"
    /\ LET st == prog[apc]
           deps == [i \in 1..Len(st.args) |-> bind[st.args[i]]]
           in == [i \in 1..Len(deps) |-> tasks[deps[i]].val]
       IN \E sample \in SampleValues :
            /\ tasks' = Append(tasks, [Task(st.op, deps, cellNo) EXCEPT
                                          !.status = "done", !.val = Compute(st.op, in, sample)])
            /\ bind' = [bind EXCEPT ![st.out] = Len(tasks) + 1]
    /\ apc' = apc + 1
    /\ lastStmt' = "issue"
    /\ UNCHANGED <<prog, output, cellNo, synced>>
    /\ UNCHANGED besidesAsync

\* an operation on arrays: the frontend inserts the task into the queue of
\* the backend and returns
FeIssue ==
    /\ AtStmt("issue")
    /\ Unbound(prog[apc]) = {}
    /\ LET st == prog[apc]
           deps == [i \in 1..Len(st.args) |-> bind[st.args[i]]]
       IN /\ tasks' = Append(tasks, Task(st.op, deps, cellNo))
          /\ bind' = [bind EXCEPT ![st.out] = Len(tasks) + 1]
    /\ apc' = apc + 1
    /\ lastStmt' = "issue"
    /\ UNCHANGED <<prog, output, cellNo, synced>>
    /\ UNCHANGED besidesAsync

\* a waitall that waits for the task issued last only
MutFeWaitAll ==
    /\ AtStmt("waitall")
    /\ Len(tasks) > 0 => tasks[Len(tasks)].status = "done"
    /\ apc' = apc + 1
    /\ lastStmt' = "waitall"
    /\ synced' = Len(tasks)
    /\ UNCHANGED <<prog, tasks, bind, output, cellNo>>
    /\ UNCHANGED besidesAsync

\* npx.waitall(): returns when all computation has completed
FeWaitAll ==
    /\ AtStmt("waitall")
    /\ Pending = {}
    /\ apc' = apc + 1
    /\ lastStmt' = "waitall"
    /\ synced' = Len(tasks)
    /\ UNCHANGED <<prog, tasks, bind, output, cellNo>>
    /\ UNCHANGED besidesAsync

\* the value of a variable is printed: the frontend waits for the backend
\* to finish computing it
FeDisplay ==
    /\ AtStmt("print")
    /\ LET i == bind[prog[apc].args[1]] IN
        /\ i # 0
        /\ tasks[i].status = "done"
        /\ output' = Append(output, tasks[i].val)
    /\ apc' = apc + 1
    /\ lastStmt' = "print"
    /\ UNCHANGED <<prog, tasks, bind, cellNo, synced>>
    /\ UNCHANGED besidesAsync

\* wait_to_read that only returns once the whole queue is empty
MutFeWaitToRead ==
    /\ AtStmt("wait_to_read")
    /\ bind[prog[apc].args[1]] # 0
    /\ Pending = {}
    /\ apc' = apc + 1
    /\ lastStmt' = "wait_to_read"
    /\ UNCHANGED <<prog, tasks, bind, output, cellNo, synced>>
    /\ UNCHANGED besidesAsync

\* z.wait_to_read() returns once the task bound to z is computed
FeWaitToRead ==
    /\ AtStmt("wait_to_read")
    /\ LET i == bind[prog[apc].args[1]] IN
        /\ i # 0
        /\ tasks[i].status = "done"
    /\ apc' = apc + 1
    /\ lastStmt' = "wait_to_read"
    /\ UNCHANGED <<prog, tasks, bind, output, cellNo, synced>>
    /\ UNCHANGED besidesAsync

\* a conversion that copies the buffer without waiting for the backend
MutFeConvert ==
    /\ \E kind \in {"asnumpy", "item"} :
        /\ AtStmt(kind)
        /\ LET i == bind[prog[apc].args[1]] IN
            /\ i # 0
            /\ output' = Append(output, tasks[i].val)
        /\ lastStmt' = kind
    /\ apc' = apc + 1
    /\ UNCHANGED <<prog, tasks, bind, cellNo, synced>>
    /\ UNCHANGED besidesAsync

\* z.asnumpy() and z.item() hand the value of z to Python once it is computed
FeConvert ==
    /\ \E kind \in {"asnumpy", "item"} :
        /\ AtStmt(kind)
        /\ LET i == bind[prog[apc].args[1]] IN
            /\ i # 0
            /\ tasks[i].status = "done"
            /\ output' = Append(output, tasks[i].val)
        /\ lastStmt' = kind
    /\ apc' = apc + 1
    /\ UNCHANGED <<prog, tasks, bind, cellNo, synced>>
    /\ UNCHANGED besidesAsync

\* a backend thread that collects any queued task
MutBeStart ==
    /\ Cardinality(Running) < NWorkers
    /\ \E i \in 1..Len(tasks) :
        /\ tasks[i].status = "queued"
        /\ tasks' = [tasks EXCEPT ![i].status = "running"]
    /\ UNCHANGED <<prog, apc, bind, output, lastStmt, cellNo, synced>>
    /\ UNCHANGED besidesAsync

\* a backend thread collects a queued task whose inputs are all computed
BeStart ==
    /\ Cardinality(Running) < NWorkers
    /\ \E i \in 1..Len(tasks) :
        /\ tasks[i].status = "queued"
        /\ \A j \in 1..Len(tasks[i].deps) : tasks[tasks[i].deps[j]].status = "done"
        /\ tasks' = [tasks EXCEPT ![i].status = "running"]
    /\ UNCHANGED <<prog, apc, bind, output, lastStmt, cellNo, synced>>
    /\ UNCHANGED besidesAsync

\* a backend thread finishes the task it executes
BeFinish ==
    /\ \E i \in Running :
        LET in == [j \in 1..Len(tasks[i].deps) |-> tasks[tasks[i].deps[j]].val] IN
        \E sample \in SampleValues :
            tasks' = [tasks EXCEPT ![i].status = "done",
                                   ![i].val = Compute(tasks[i].op, in, sample)]
    /\ UNCHANGED <<prog, apc, bind, output, lastStmt, cellNo, synced>>
    /\ UNCHANGED besidesAsync

NextAsync ==
    \/ FeRunCell
    \/ FeNameError
    \/ FeIssue
    \/ FeWaitAll
    \/ FeDisplay
    \/ FeWaitToRead
    \/ FeConvert
    \/ BeStart
    \/ BeFinish

\* what a step of the frontend that completes an issue or a print does
C9_IssueStep ==
    /\ (lastStmt' = "issue" /\ apc' = apc + 1) =>
            /\ Len(tasks') = Len(tasks) + 1
            /\ tasks'[Len(tasks')].status = "queued"
            /\ \A i \in 1..Len(tasks) : tasks'[i] = tasks[i]
            /\ output' = output
    /\ (lastStmt' = "print" /\ apc' = apc + 1) =>
            LET i == bind[prog[apc].args[1]] IN
            /\ i # 0
            /\ tasks[i].status = "done"
            /\ output' = Append(output, tasks[i].val)

\* C9: issuing an operation only inserts a task into the queue of the
\* backend and returns without waiting for any computation, and the frontend
\* waits only when it must read a result: print hands over the value of a
\* task the backend has finished.
C9_IssueReturnsAtOnce ==
    /\ []((AtStmt("issue") /\ Unbound(prog[apc]) = {}) => ENABLED FeIssue)
    /\ [][C9_IssueStep]_vars

\* the frontend is past the end of an issue loop and everything it issued
\* is still waiting in the queue
C9_Witness ==
    /\ prog = LoopCell(MaxLoop)
    /\ apc > Len(prog)
    /\ lastStmt = "issue"
    /\ Len(tasks) = IssueCount(prog)
    /\ \A i \in 1..Len(tasks) : tasks[i].status = "queued"

\* C10: when npx.waitall() returns, every computation issued before the
\* call has completed, whenever it was issued.
C10_WaitAllIsBarrier ==
    lastStmt = "waitall" => \A i \in 1..Len(tasks) : tasks[i].status = "done"

\* waitall has returned, and some of the tasks it waited for were issued by
\* an earlier cell
C10_Witness ==
    /\ lastStmt = "waitall"
    /\ apc > Len(prog)
    /\ \E i \in 1..Len(tasks) : tasks[i].cell < cellNo
    /\ \E i \in 1..Len(tasks) : tasks[i].cell = cellNo

\* the task a name is bound to is computed
Computed(name) == bind[name] # 0 /\ tasks[bind[name]].status = "done"

\* what a step of the frontend that completes a wait_to_read does
C11_WaitStep ==
    (lastStmt' = "wait_to_read" /\ apc' = apc + 1) =>
        /\ AtStmt("wait_to_read")
        /\ Computed(prog[apc].args[1])
        /\ tasks' = tasks

\* C11: z.wait_to_read() is a barrier for z alone: it returns only when the
\* task bound to z is computed, and it returns as soon as that task is
\* computed, whatever else is still queued or running
C11_WaitToReadIsPerValue ==
    /\ []((AtStmt("wait_to_read") /\ Computed(prog[apc].args[1])) => ENABLED FeWaitToRead)
    /\ [][C11_WaitStep]_vars

\* wait_to_read has returned while tasks of an earlier cell are not computed
C11_Witness ==
    /\ lastStmt = "wait_to_read"
    /\ apc > 1
    /\ prog[apc - 1].kind = "wait_to_read"
    /\ Computed(prog[apc - 1].args[1])
    /\ \E i \in Pending : tasks[i].cell < cellNo

\* the value a computed task holds is the value of its operation on the
\* values of its inputs
ValueOf(i) ==
    LET in == [j \in 1..Len(tasks[i].deps) |-> tasks[tasks[i].deps[j]].val] IN
    {Compute(tasks[i].op, in, sample) : sample \in SampleValues}

\* C12: print(z), z.asnumpy() and z.item() block the frontend until z is
\* computed: a step that completes one of them starts from a state where the
\* task bound to z is done, and hands exactly that task's computed value to
\* Python
C12_ConversionsAreBarriers ==
    [][(lastStmt' \in {"print", "asnumpy", "item"} /\ apc' = apc + 1) =>
        /\ AtStmt(lastStmt')
        /\ Computed(prog[apc].args[1])
        /\ tasks[bind[prog[apc].args[1]]].val \in ValueOf(bind[prog[apc].args[1]])
        /\ output' = Append(output, tasks[bind[prog[apc].args[1]]].val)
        /\ tasks' = tasks]_vars

\* the cell with asnumpy and item has run to its end and handed two values over
C12_Witness ==
    /\ lastStmt = "item"
    /\ prog = ConvertCell
    /\ apc > Len(prog)
    /\ Len(output) >= 2

\* C13: a task that has started has all of its inputs computed: no task runs
\* before, or together with, a task that produces one of its inputs
C13_DependenciesRespected ==
    \A i \in 1..Len(tasks) :
        tasks[i].status # "queued" =>
            \A j \in 1..Len(tasks[i].deps) : tasks[tasks[i].deps[j]].status = "done"

\* the addition of z = x * y + 2 is running, after the multiplication finished
C13_Witness ==
    \E i \in Running :
        /\ tasks[i].op = "add2"
        /\ tasks[tasks[i].deps[1]].op = "mul"
        /\ tasks[tasks[i].deps[1]].status = "done"

\* a benchmark loop of y = x + 1 has run to its end
AddLoopDone ==
    /\ prog # <<>>
    /\ prog[1].op = "add1"
    /\ apc > Len(prog)
    /\ lastStmt # "NameError"

\* C15: after a benchmark loop of n iterations the variable is n larger
\* than the value the loop started from
C15_LoopAddsIterationCount ==
    AddLoopDone => tasks[bind["y"]].val = tasks[bind["x"]].val + IssueCount(prog)

\* C16: when at most K tasks were issued since the frontend synchronized
\* last, at most K tasks are pending in the backend
C16_PendingAtMostBatch ==
    \A K \in 0..MaxTasks :
        Len(tasks) - synced <= K => Cardinality(Pending) <= K

\* after a synchronization, a whole batch of two or more tasks is pending
C16_Witness ==
    /\ synced > 0
    /\ Cardinality(Pending) >= 2
    /\ Cardinality(Pending) = Len(tasks) - synced

\* a cell has run to its end or has been stopped by an error
CellEnded == prog # <<>> /\ apc > Len(prog)

Max(p, q) == IF p >= q THEN p ELSE q

InitTiming ==
    /\ tn \in 1..MaxN
    /\ t1 \in 1..MaxT
    /\ t2 \in 1..MaxT
    /\ t3 \in 1..MaxT
    /\ tmode \in {"sync", "async"}
    /\ feClock = 0
    /\ inserted = <<>>
    /\ finished = <<>>
    /\ twaits = 0

\* a backend that starts a task the moment it is inserted, busy or not
MutBackendStart(k) == inserted[k]

\* the backend thread starts task k when the task is in the queue and the
\* thread has finished the task before it
BackendStart(k) == Max(inserted[k], IF k = 1 THEN 0 ELSE finished[k - 1])

\* the frontend inserts the next task of the loop; in the synchronous loop
\* the barrier of the task before it has returned
TInsert ==
    /\ Len(inserted) < tn
    /\ tmode = "sync" => twaits = Len(inserted)
    /\ feClock' = feClock + t1
    /\ inserted' = Append(inserted, feClock + t1)
    /\ UNCHANGED <<tn, t1, t2, t3, tmode, finished, twaits>>
    /\ UNCHANGED besidesTiming

\* the backend computes the next task in the queue
TCompute ==
    /\ Len(finished) < Len(inserted)
    /\ finished' = Append(finished, BackendStart(Len(finished) + 1) + t2)
    /\ UNCHANGED <<tn, t1, t2, t3, tmode, feClock, inserted, twaits>>
    /\ UNCHANGED besidesTiming

\* y.wait_to_read(): the frontend waits for the task it inserted last, and
\* the backend returns its result
TWaitToRead ==
    /\ tmode = "sync"
    /\ twaits < Len(inserted)
    /\ Len(finished) = Len(inserted)
    /\ feClock' = Max(feClock, finished[Len(inserted)]) + t3
    /\ twaits' = twaits + 1
    /\ UNCHANGED <<tn, t1, t2, t3, tmode, inserted, finished>>
    /\ UNCHANGED besidesTiming

\* npx.waitall() after the loop: the frontend waits for every task, and the
\* backend returns the result
TWaitAll ==
    /\ tmode = "async"
    /\ twaits = 0
    /\ Len(inserted) = tn
    /\ Len(finished) = tn
    /\ feClock' = Max(feClock, finished[tn]) + t3
    /\ twaits' = 1
    /\ UNCHANGED <<tn, t1, t2, t3, tmode, inserted, finished>>
    /\ UNCHANGED besidesTiming

NextTiming ==
    \/ TInsert
    \/ TCompute
    \/ TWaitToRead
    \/ TWaitAll

\* the benchmark has ended: its last barrier has returned
TDone == IF tmode = "sync" THEN twaits = tn ELSE twaits = 1

KeyNames == <<"layers_0", "layers_1", "layers_2", "layers_3", "layers_4", "layers_5", "layers_6">>

\* the key of the layer at position i of a Sequential, counted from 0
LayerKey(i) == KeyNames[i + 1]

\* nn.initializers: the name of an initializer and the constant it was
\* built with
Constant(c) == [name |-> "constant", value |-> c]

Zeros == [name |-> "zeros", value |-> 0]

Normal == [name |-> "normal", value |-> 0]

XavierUniform == [name |-> "xavier_uniform", value |-> 0]

LecunNormal == [name |-> "lecun_normal", value |-> 0]

NoInitializer == [name |-> "none", value |-> 0]

\* nn.Dense(features, kernel_init=kinit, bias_init=binit); id tells the
\* Python objects apart
DenseWith(features, id, kinit, binit) ==
    [kind |-> "dense", features |-> features, id |-> id, kernel_init |-> kinit, bias_init |-> binit]

\* nn.Dense(features): a kernel from lecun_normal and a bias of zeros
Dense(features, id) == DenseWith(features, id, LecunNormal, Zeros)

Relu == [kind |-> "relu", features |-> 0, id |-> 0, kernel_init |-> NoInitializer, bias_init |-> NoInitializer]

\* nn.Sequential([nn.Dense(8), nn.relu, nn.Dense(1)])
MLPNet == <<Dense(8, 1), Relu, Dense(1, 2)>>

\* shared = nn.Dense(8), used at two positions
TiedNet == <<Dense(8, 1), Relu, Dense(8, 2), Relu, Dense(8, 2), Relu, Dense(1, 3)>>

\* weight_init = nn.initializers.normal(0.01); bias_init = nn.initializers.zeros
NormalNet == <<DenseWith(8, 1, Normal, Zeros), Relu, DenseWith(1, 2, Normal, Zeros)>>

\* weight_init = nn.initializers.constant(1)
ConstantNet == <<DenseWith(8, 1, Constant(1), Zeros), Relu, DenseWith(1, 2, Constant(1), Zeros)>>

\* xavier_uniform for the first layer, constant(42) for the second
XavierConstNet == <<DenseWith(8, 1, XavierUniform, Zeros), Relu, DenseWith(1, 2, Constant(42), Zeros)>>

Nets == {MLPNet, TiedNet, NormalNet, ConstantNet, XavierConstNet}

\* X = jax.random.uniform(d2l.get_key(), (2, 4))
XShape == <<2, 4>>

ParamValues == (0 - MaxParam)..MaxParam

DensePos(n) == {i \in 1..Len(n) : n[i].kind = "dense"}

\* the first position at which the object at position i occurs
FirstPos(n, i) == CHOOSE j \in DensePos(n) : n[j].id = n[i].id /\ \A h \in DensePos(n) : n[h].id = n[i].id => j <= h

\* every position of the list is given a key of its own
MutRegisterNames(n) ==
    [i \in 1..Len(n) |-> IF n[i].kind = "dense" THEN LayerKey(i - 1) ELSE "none"]

\* a module is named layers_i after the position at which it is met first:
\* an object that occurs again keeps the name it has; a function such as
\* nn.relu is not a module and has no name
RegisterNames(n) ==
    [i \in 1..Len(n) |-> IF n[i].kind = "dense" THEN LayerKey(FirstPos(n, i) - 1) ELSE "none"]

\* the width of the output of the first i layers on an input of width w
RECURSIVE WidthAfter(_, _, _)
WidthAfter(n, i, w) ==
    IF i = 0 THEN w
    ELSE IF n[i].kind = "dense" THEN n[i].features
    ELSE WidthAfter(n, i - 1, w)

\* a kernel laid out as (out, in)
MutDenseParams(in, out, kv, bv) ==
    [kernel |-> [shape |-> <<out, in>>, val |-> kv], bias |-> [shape |-> <<out>>, val |-> bv]]

\* the parameters of nn.Dense(out) on inputs of width in: a kernel of shape
\* (in, out) and a bias of shape (out,), with the values their initializers
\* gave
DenseParams(in, out, kv, bv) ==
    [kernel |-> [shape |-> <<in, out>>, val |-> kv], bias |-> [shape |-> <<out>>, val |-> bv]]

\* the keys of the parameter dictionary
Keys(n, nm) == {nm[i] : i \in DensePos(n)}

\* the position at which the module with key k is called first
KeyPos(n, nm, k) == CHOOSE j \in DensePos(n) : nm[j] = k /\ \A h \in DensePos(n) : nm[h] = k => j <= h

\* the values an initializer may fill an array with: constant(c) gives c,
\* zeros gives 0, the random initializers give any value
InitValues(init) ==
    CASE init.name = "constant" -> {init.value}
      [] init.name = "zeros" -> {0}
      [] OTHER -> ParamValues

\* one initializer for the whole net: that of its last layer
MutInitOf(n, nm, k, kind) ==
    LET i == CHOOSE j \in DensePos(n) : \A h \in DensePos(n) : h <= j
    IN IF kind = "kernel" THEN n[i].kernel_init ELSE n[i].bias_init

\* the initializer of the kernel or of the bias of the module with key k
InitOf(n, nm, k, kind) ==
    LET i == KeyPos(n, nm, k)
    IN IF kind = "kernel" THEN n[i].kernel_init ELSE n[i].bias_init

\* the values the initializers may give to the kernels, or to the biases, of
\* a net
Draws(n, nm, kind) ==
    {f \in [Keys(n, nm) -> ParamValues \cup {0, 1, 42}] :
        \A k \in Keys(n, nm) : f[k] \in InitValues(InitOf(n, nm, k, kind))}

\* net.init: one entry for every named module, made where the module is
\* called first
InitParams(n, nm, shape, kv, bv) ==
    [k \in Keys(n, nm) |->
        LET i == KeyPos(n, nm, k)
        IN DenseParams(WidthAfter(n, i - 1, shape[2]), n[i].features, kv[k], bv[k])]

ShapeError == <<"error">>

\* the shape of the result of layers i, i + 1, ... on an input of this shape
RECURSIVE Forward(_, _, _, _, _)
Forward(n, nm, prm, i, shape) ==
    IF i > Len(n) THEN shape
    ELSE IF n[i].kind = "relu" THEN Forward(n, nm, prm, i + 1, shape)
    ELSE LET k == prm[nm[i]].kernel IN
         IF k.shape[1] # shape[2] THEN ShapeError
         ELSE Forward(n, nm, prm, i + 1, <<shape[1], k.shape[2]>>)

\* the parameters the layer at position i (counted from 1) computes with
ParamsAt(i) == params[names[i]]

InitNet ==
    /\ net \in Nets
    /\ names = <<>>
    /\ params = <<>>
    /\ pout = <<>>
    /\ ppc = "built"

\* params = net.init(key, X)
NetInit ==
    /\ ppc = "built"
    /\ names' = RegisterNames(net)
    /\ \E kv \in Draws(net, RegisterNames(net), "kernel"), bv \in Draws(net, RegisterNames(net), "bias") :
        params' = InitParams(net, RegisterNames(net), XShape, kv, bv)
    /\ ppc' = "initialized"
    /\ UNCHANGED <<net, pout>>
    /\ UNCHANGED besidesParams

\* net.apply(params, X).shape
NetApply ==
    /\ ppc # "built"
    /\ pout' = Forward(net, names, params, 1, XShape)
    /\ ppc' = "applied"
    /\ UNCHANGED <<net, names, params>>
    /\ UNCHANGED besidesParams

\* the kernel or the bias of the layer at one position is changed
ParamUpdate ==
    /\ ppc # "built"
    /\ \E i \in DensePos(net), v \in ParamValues :
        \/ params' = [params EXCEPT ![names[i]].kernel.val = v]
        \/ params' = [params EXCEPT ![names[i]].bias.val = v]
    /\ UNCHANGED <<net, names, pout, ppc>>
    /\ UNCHANGED besidesParams

NextParams ==
    \/ NetInit
    \/ NetApply
    \/ ParamUpdate

\* C17: the net with one Dense object at two positions has a parameter
\* dictionary of exactly 3 entries, not 4
C17_TiedNetHasThreeEntries ==
    (net = TiedNet /\ ppc # "built") =>
        /\ Cardinality(DOMAIN params) = 3
        /\ Cardinality(DensePos(net)) = 4

\* the tied net has been initialized
C17_Witness ==
    /\ net = TiedNet
    /\ ppc = "initialized"
    /\ DOMAIN params = {"layers_0", "layers_2", "layers_6"}

\* C18: the second and the third Dense position of the tied net compute
\* with the same parameters in every state, whatever updates were made
C18_TiedParamsAreOneTensor ==
    (net = TiedNet /\ ppc # "built") => ParamsAt(3) = ParamsAt(5)

\* kernel and bias of the shared layer have both been changed
C18_Witness ==
    /\ net = TiedNet
    /\ ppc # "built"
    /\ ParamsAt(5).bias.val # 0
    /\ ParamsAt(3).kernel.val # ParamsAt(1).kernel.val

\* C19: the parameters of Sequential([Dense(8), relu, Dense(1)]) initialized
\* on an input of shape (2, 4) are keyed by position: layers_0 with kernel
\* (4, 8) and bias (8,), layers_2 with kernel (8, 1) and bias (1,), nothing
\* for relu at position 1; and net.apply(params, X) has shape (2, 1)
C19_MLPTreeAndOutputShape ==
    /\ (net = MLPNet /\ ppc # "built") =>
        /\ DOMAIN params = {"layers_0", "layers_2"}
        /\ params["layers_0"].kernel.shape = <<4, 8>>
        /\ params["layers_0"].bias.shape = <<8>>
        /\ params["layers_2"].kernel.shape = <<8, 1>>
        /\ params["layers_2"].bias.shape = <<1>>
    /\ (net = MLPNet /\ ppc = "applied") => pout = <<2, 1>>

\* the net has been initialized and applied to X
C19_Witness ==
    /\ net = MLPNet
    /\ ppc = "applied"
    /\ pout # <<>>

(***************************************************************************)
(* The custom initializer my_init.  A tensor is its shape, its data type  *)
(* and its entries in row-major order.                                     *)
(***************************************************************************)
DTypes == {"float16", "float32", "float64"}

\* shapes of one or two axes with at most MaxElems entries
Shapes ==
    {<<d>> : d \in 1..MaxElems}
        \cup {<<d, e>> : d \in 1..MaxElems, e \in 1..MaxElems}

RECURSIVE NumElems(_)
NumElems(shape) == IF shape = <<>> THEN 1 ELSE Head(shape) * NumElems(Tail(shape))

\* the data type JAX computes with when asked for dtype: 64-bit types exist
\* only when they are enabled
Canonical(dtype, x64) == IF dtype = "float64" /\ ~x64 THEN "float32" ELSE dtype

MinVal == 0 - 10

MaxVal == 10

Keep == 5

\* the values a draw from [minval, maxval) takes in the model: the integers
UniformGrid == MinVal..(MaxVal - 1)

\* jax.random.uniform(key, shape, minval=-10, maxval=10): no dtype is
\* passed, so the draw has the default floating-point type
Uniform(draw, shape, x64) ==
    [shape |-> shape, dtype |-> Canonical("float64", x64), data |-> draw]

Abs(v) == IF v < 0 THEN 0 - v ELSE v

\* an initializer that zeroes the large entries and keeps the small ones
MutMyInit(draw, shape, dtype, x64) ==
    LET data == Uniform(draw, shape, x64) IN
    [shape |-> data.shape,
     dtype |-> data.dtype,
     data |-> [i \in 1..Len(data.data) |-> IF Abs(data.data[i]) < Keep THEN data.data[i] ELSE 0]]

\* data * (jnp.abs(data) >= 5): the product with a mask of booleans has the
\* shape and the data type of data
MyInit(draw, shape, dtype, x64) ==
    LET data == Uniform(draw, shape, x64) IN
    [shape |-> data.shape,
     dtype |-> data.dtype,
     data |-> [i \in 1..Len(data.data) |-> IF Abs(data.data[i]) >= Keep THEN data.data[i] ELSE 0]]

NoTensor == [shape |-> <<>>, dtype |-> "none", data |-> <<>>]

InitMyInit ==
    /\ ishape \in {sh \in Shapes : NumElems(sh) <= MaxElems}
    /\ idtype \in DTypes
    /\ ix64 \in BOOLEAN
    /\ iresult = NoTensor
    /\ ipc = "ready"

\* my_init(key, shape, dtype); the key decides the draw
MyInitCall ==
    /\ ipc = "ready"
    /\ \E draw \in [1..NumElems(ishape) -> UniformGrid] :
        iresult' = MyInit(draw, ishape, idtype, ix64)
    /\ ipc' = "returned"
    /\ UNCHANGED <<ishape, idtype, ix64>>
    /\ UNCHANGED besidesMyInit

NextMyInit == MyInitCall

\* C20: my_init returns a tensor of the shape and of the data type it was
\* asked for
C20_MyInitShapeAndDType ==
    ipc = "returned" =>
        /\ iresult.shape = ishape
        /\ iresult.dtype = Canonical(idtype, ix64)

C21_MyInitSupport ==
    ipc = "returned" =>
        \A i \in 1..Len(iresult.data) :
            LET w == iresult.data[i] IN
            \/ w = 0
            \/ 5 <= w /\ w <= 10
            \/ 0 - 10 <= w /\ w <= 0 - 5

\* my_init has returned a tensor with a zeroed entry and a kept negative one
C21_Witness ==
    /\ ipc = "returned"
    /\ \E i \in 1..Len(iresult.data) : iresult.data[i] = 0
    /\ \E i \in 1..Len(iresult.data) : iresult.data[i] <= 0 - 5

(***************************************************************************)
(* The specifications.                                                     *)
(***************************************************************************)
\* the parts a specification leaves alone stay as they are at the start of
\* their notebook
IdleAutograd ==
    /\ x = Vector([i \in 1..N |-> i - 1])
    /\ attached = FALSE
    /\ xgrad = NoArray
    /\ y = Undefined
    /\ u = Undefined
    /\ z = Undefined
    /\ lastCell = "x"
    /\ lastDiff = "none"
    /\ prevDiff = "none"

IdleF ==
    /\ fa = FOne
    /\ fb = NoNode
    /\ fd = NoNode
    /\ fagrad = FZero
    /\ fpc = "start"
    /\ fiters = 0
    /\ feq = "unset"

IdleTiming ==
    /\ tn = 0
    /\ t1 = 0
    /\ t2 = 0
    /\ t3 = 0
    /\ tmode = "idle"
    /\ feClock = 0
    /\ inserted = <<>>
    /\ finished = <<>>
    /\ twaits = 0

IdleParams ==
    /\ net = <<>>
    /\ names = <<>>
    /\ params = <<>>
    /\ pout = <<>>
    /\ ppc = "built"

IdleMyInit ==
    /\ ishape = <<>>
    /\ idtype = "none"
    /\ ix64 = FALSE
    /\ iresult = NoTensor
    /\ ipc = "ready"

IdleAsync ==
    /\ prog = <<>>
    /\ apc = 1
    /\ tasks = <<>>
    /\ bind = [n \in Names |-> 0]
    /\ output = <<>>
    /\ lastStmt = "none"
    /\ cellNo = 0
    /\ synced = 0

\* the automatic-differentiation session on x
Init == InitAutograd /\ IdleF /\ IdleAsync /\ IdleTiming /\ IdleParams /\ IdleMyInit

Next == NextAutograd

Spec == Init /\ [][Next]_vars

\* the control-flow cells
InitControlFlow == IdleAutograd /\ InitF /\ IdleAsync /\ IdleTiming /\ IdleParams /\ IdleMyInit

SpecF == InitControlFlow /\ [][NextF]_vars

\* the control-flow cells, with the call f(a) run to completion: the Python
\* interpreter keeps executing the statements of f as long as there is one
\* to execute
SpecFLive ==
    /\ InitControlFlow
    /\ [][NextF]_vars
    /\ WF_vars(FEnter)
    /\ WF_vars(FTest)
    /\ WF_vars(FBody)
    /\ WF_vars(FReturn)

\* the asynchronous frontend and backend
InitAsynchronous == IdleAutograd /\ IdleF /\ InitAsync /\ IdleTiming /\ IdleParams /\ IdleMyInit

SpecAsync == InitAsynchronous /\ [][NextAsync]_vars

\* the timed benchmark loops
InitTimed == IdleAutograd /\ IdleF /\ IdleAsync /\ InitTiming /\ IdleParams /\ IdleMyInit

SpecTiming == InitTimed /\ [][NextTiming]_vars

\* the Flax models and their parameters
InitModels == IdleAutograd /\ IdleF /\ IdleAsync /\ IdleTiming /\ InitNet /\ IdleMyInit

SpecParams == InitModels /\ [][NextParams]_vars

\* calls of the custom initializer
InitInitializer == IdleAutograd /\ IdleF /\ IdleAsync /\ IdleTiming /\ IdleParams /\ InitMyInit

SpecMyInit == InitInitializer /\ [][NextMyInit]_vars

====
